---- MODULE Spec2Model ----
(***************************************************************************)
(* Uptime Monitor API (src/main.py): the monitor registry, the probe and   *)
(* the aggregation, as run by one asyncio event loop.  A handler runs      *)
(* without interruption between two suspension points; the only           *)
(* suspension point inside a handler is `await check_url_status(url)`.    *)
(*                                                                         *)
(* Conventions of the model:                                               *)
(*  - a Python str is a sequence of one-character strings;                 *)
(*  - an Optional value is a sequence of length at most one                *)
(*    (None is << >>, a present value v is << v >>);                       *)
(*  - a float that the code rounds to 2 decimals is held as an integer     *)
(*    number of hundredths (100.0 is 10000);                               *)
(*  - datetime.now() and the time.time() of the monitor id read the       *)
(*    logical clock `now`, which advances by one while a probe is on the   *)
(*    network; the elapsed time a probe measures is part of its outcome;   *)
(*  - the dict `monitors` is an insertion-ordered sequence of records.     *)
(***************************************************************************)
EXTENDS Integers, Sequences, FiniteSets, TLC

\* ------------------------------------------------------------------------
\* Bounds of the model
\* ------------------------------------------------------------------------
\* Number of probes (calls of check_url_status) started in one behaviour.
MaxProbes == 2

\* ------------------------------------------------------------------------
\* Program constants and inputs
\* ------------------------------------------------------------------------
\* The history cap: the literal 100 of `> 100` and `[-100:]`.
HistoryLimit == 100

\* The default of the `limit` parameter of get_monitor_history.
DefaultLimit == 50

\* The httpx status code from which a response counts as down.
DownFrom == 400

VALID_API_KEY == "dabibanban"

ApiKeys == {VALID_API_KEY, "wrong"}

None == << >>

Some(v) == << v >>

HTTP == <<"h", "t", "t", "p", ":", "/", "/">>

HTTPS == <<"h", "t", "t", "p", "s", ":", "/", "/">>

UrlA == HTTP \o <<"a">>

UrlB == HTTPS \o <<"b">>

UrlFtp == <<"f", "t", "p", ":", "/", "/", "a">>

EmptyUrl == << >>

\* The url strings a caller passes.
UrlInputs == {UrlA, UrlB, UrlFtp, EmptyUrl}

\* The optional `url` query parameter of get_monitors.
UrlParams == {None} \cup {Some(u) : u \in UrlInputs}

\* The `limit` values a caller passes to get_monitor_history.
Limits == {DefaultLimit, 1, 0, -1}

\* What the network does to one probe: an HTTP response, or an exception
\* raised by httpx (timeout, connection failure), after `elapsed`
\* hundredths of a millisecond between the two readings of time.time().
StatusCodes == {399, 400}

Errors == {"ConnectTimeout"}

Durations == {1234}

Outcomes ==
    [kind : {"response"}, status_code : StatusCodes, elapsed : Durations]
        \cup [kind : {"exception"}, message : Errors, elapsed : Durations]

\* ------------------------------------------------------------------------
\* Pure helpers
\* ------------------------------------------------------------------------
\* str.startswith(prefix)
StartsWith(s, prefix) ==
    /\ Len(s) >= Len(prefix)
    /\ SubSeq(s, 1, Len(prefix)) = prefix

\* url.startswith(("http://", "https://"))
\* (variant: the scheme is not tested)
IsHttpUrl_NoCheck(url) == TRUE

IsHttpUrl(url) == StartsWith(url, HTTP) \/ StartsWith(url, HTTPS)

\* Python truthiness of an Optional[str]: None and "" are false.
Truthy(param) == param # None /\ param[1] # EmptyUrl

\* seq[start:] for any integer start (Python slice semantics).
SliceFrom(seq, start) ==
    LET n == Len(seq)
        lo == IF start < 0
              THEN (IF n + start < 0 THEN 0 ELSE n + start)
              ELSE (IF start > n THEN n ELSE start)
    IN  SubSeq(seq, lo + 1, n)

\* (variant: the percentage is cut to 2 decimals instead of rounded)
RoundPercent_Truncate(num, den) == (num * 10000) \div den

\* round(num / den * 100, 2) in hundredths, for integers num >= 0, den > 0.
\* Python rounds the double to the nearest hundredth, ties to even; the only
\* ties (den a multiple of 32) are exact in binary floating point.
RoundPercent(num, den) ==
    LET n == num * 10000
        q == n \div den
        r == n % den
    IN  IF 2 * r < den THEN q
        ELSE IF 2 * r > den THEN q + 1
        ELSE IF q % 2 = 0 THEN q ELSE q + 1

\* `url in monitors`
Contains(dict, url) == \E i \in DOMAIN dict : dict[i].url = url

Keys(dict) == {dict[i].url : i \in DOMAIN dict}

IndexOf(dict, url) == CHOOSE i \in DOMAIN dict : dict[i].url = url

\* monitors[url]
GetItem(dict, url) == dict[IndexOf(dict, url)]

\* monitors[url] = rec : an existing key keeps its place, a new one goes last
SetItem(dict, url, rec) ==
    IF Contains(dict, url)
    THEN [dict EXCEPT ![IndexOf(dict, url)] = rec]
    ELSE Append(dict, rec)

\* (variant: the entry is not deleted)
DelItem_Keep(dict, url) == dict

\* (variant: the test of the filter is inverted)
DelItem_Inverted(dict, url) == SelectSeq(dict, LAMBDA m : m.url = url)

\* del monitors[url]
DelItem(dict, url) == SelectSeq(dict, LAMBDA m : m.url # url)

\* ------------------------------------------------------------------------
\* check_url_status: the result dict built from what the network did
\* ------------------------------------------------------------------------
\* (variant: the comparison with 400 is `<=`)
check_url_status_Inclusive(outcome, end_time) ==
    IF outcome.kind = "response"
    THEN [status        |-> IF outcome.status_code <= DownFrom
                            THEN "up" ELSE "down",
          status_code   |-> Some(outcome.status_code),
          response_time |-> outcome.elapsed,
          last_checked  |-> end_time,
          error         |-> None]
    ELSE [status        |-> "down",
          status_code   |-> None,
          response_time |-> outcome.elapsed,
          last_checked  |-> end_time,
          error         |-> Some(outcome.message)]

check_url_status(outcome, end_time) ==
    IF outcome.kind = "response"
    THEN [status        |-> IF outcome.status_code < DownFrom
                            THEN "up" ELSE "down",
          status_code   |-> Some(outcome.status_code),
          response_time |-> outcome.elapsed,
          last_checked  |-> end_time,
          error         |-> None]
    ELSE [status        |-> "down",
          status_code   |-> None,
          response_time |-> outcome.elapsed,
          last_checked  |-> end_time,
          error         |-> Some(outcome.message)]

\* ------------------------------------------------------------------------
\* calculate_uptime_percentage
\* ------------------------------------------------------------------------
UpChecks(checks) == SelectSeq(checks, LAMBDA c : c.status = "up")

calculate_uptime_percentage(monitor_data) ==
    IF monitor_data.checks = << >>
    THEN 0
    ELSE RoundPercent(Len(UpChecks(monitor_data.checks)),
                      Len(monitor_data.checks))

\* ------------------------------------------------------------------------
\* The store update of get_monitors (lines 139-149)
\* ------------------------------------------------------------------------
\* (variant: the slice keeps one entry more than the test allows)
AppendCheck_OffByOne(checks, check_result) ==
    LET appended == Append(checks, check_result)
    IN  IF Len(appended) > HistoryLimit + 1
        THEN SliceFrom(appended, 0 - HistoryLimit)
        ELSE appended

\* monitors[url]["checks"].append(check_result), then keep the last 100
AppendCheck(checks, check_result) ==
    LET appended == Append(checks, check_result)
    IN  IF Len(appended) > HistoryLimit
        THEN SliceFrom(appended, 0 - HistoryLimit)
        ELSE appended

\* `if url not in monitors: monitors[url] = {...}`
EnsureMonitor(dict, url, created_at) ==
    IF ~Contains(dict, url)
    THEN SetItem(dict, url, [url        |-> url,
                             created_at |-> created_at,
                             checks     |-> << >>,
                             id         |-> None])
    ELSE dict

\* (variant: the history is written from a copy read before the probe was
\* awaited, so only the new result survives)
StoreCheck_LostUpdate(dict, url, check_result, created_at) ==
    SetItem(dict, url, [url        |-> url,
                        created_at |-> created_at,
                        checks     |-> <<check_result>>,
                        id         |-> None])

\* (variant: the request that creates the monitor returns before the append)
StoreCheck_CreateOnly(dict, url, check_result, created_at) ==
    IF ~Contains(dict, url)
    THEN EnsureMonitor(dict, url, created_at)
    ELSE LET m == GetItem(dict, url)
         IN  SetItem(dict, url,
                     [m EXCEPT !.checks = AppendCheck(m.checks, check_result)])

StoreCheck(dict, url, check_result, created_at) ==
    LET d1 == EnsureMonitor(dict, url, created_at)
        m  == GetItem(d1, url)
    IN  SetItem(d1, url,
                [m EXCEPT !.checks = AppendCheck(m.checks, check_result)])

MonitorResponse(url, check, uptime_percentage) ==
    [url               |-> url,
     status            |-> check.status,
     response_time     |-> check.response_time,
     status_code       |-> check.status_code,
     last_checked      |-> check.last_checked,
     uptime_percentage |-> uptime_percentage]

\* ------------------------------------------------------------------------
\* State
\* ------------------------------------------------------------------------
VARIABLES
    monitors,   \* the module-level dict, in insertion order
    now,        \* the clock read by time.time() and datetime.now()
    inflight,   \* handlers suspended in `await check_url_status(url)`
    issued,     \* probes started since the initial state (names handlers)
    response,   \* what the last step sent to its caller (NoResponse if none)
    \* history variables, read by the properties only
    appended,   \* per url: the check results stored since it was last absent
    epochLog,   \* per url: results of the undisturbed ad-hoc probes
    clean,      \* suspended ad-hoc probes with no add/remove of their url
    addWins,    \* per url: successful AddMonitor since the last removal
    stale,      \* suspended handlers that saw their url removed
    buried      \* per url: the check results deleted by RemoveMonitor

vars == <<monitors, now, inflight, issued, response,
          appended, epochLog, clean, addWins, stale, buried>>

ghosts == <<appended, epochLog, clean, addWins, stale, buried>>

NoResponse == [status_code |-> 0]

\* The inputs that pass the scheme test: the urls a probe can be started for.
HttpUrls == {u \in UrlInputs : IsHttpUrl(u)}

Range(seq) == {seq[i] : i \in DOMAIN seq}

\* raise HTTPException(status_code, detail)
HTTPException(status_code, detail) ==
    [status_code |-> status_code, detail |-> detail]

\* A handler's return value, sent with status 200.  `op` and `rid` name the
\* handler that returned it.
Ok(op, rid, body) ==
    [status_code |-> 200, op |-> op, rid |-> rid, body |-> body]

\* (variant: the key is not compared)
verify_api_key_Any(apikey) == TRUE

\* verify_api_key
verify_api_key(apikey) == apikey = VALID_API_KEY

Unauthorized == HTTPException(401, "Invalid or expired api key.")

InvalidURL ==
    HTTPException(400, "Invalid URL. Must start with http:// or https://")

DuplicateURL == HTTPException(400, "URL is already being monitored")

NotFound == HTTPException(404, "Monitor not found")

\* The handlers of `url` that are suspended.
Suspended(url) == {r \in DOMAIN inflight : inflight[r].url = url}

Resume(rid) == [r \in DOMAIN inflight \ {rid} |-> inflight[r]]

\* An AddMonitor or RemoveMonitor of `url` took effect: the ad-hoc probes of
\* url that are suspended are no longer undisturbed.
Disturb(url, without) ==
    /\ epochLog' = [epochLog EXCEPT ![url] = << >>]
    /\ clean' = (clean \ Suspended(url)) \ without

Init ==
    /\ monitors = << >>
    /\ now = 0
    /\ inflight = << >>
    /\ issued = 0
    /\ response = NoResponse
    /\ appended = [u \in HttpUrls |-> << >>]
    /\ epochLog = [u \in HttpUrls |-> << >>]
    /\ clean = {}
    /\ addWins = [u \in HttpUrls |-> 0]
    /\ stale = {}
    /\ buried = [u \in HttpUrls |-> {}]

\* ------------------------------------------------------------------------
\* GET /api/uptime/monitors
\* ------------------------------------------------------------------------
\* The `Return all monitors` loop: one entry per monitor that has a check.
ListEntries(dict) ==
    LET withChecks == SelectSeq(dict, LAMBDA m : m.checks # << >>)
    IN  [i \in DOMAIN withChecks |->
            MonitorResponse(withChecks[i].url,
                            withChecks[i].checks[Len(withChecks[i].checks)],
                            calculate_uptime_percentage(withChecks[i]))]

\* get_monitors up to `await check_url_status(url)`, or to its response
get_monitors(param, apikey) ==
    IF ~verify_api_key(apikey)
    THEN /\ response' = Unauthorized
         /\ UNCHANGED <<monitors, now, inflight, issued, ghosts>>
    ELSE IF Truthy(param)
    THEN IF IsHttpUrl(param[1])
         THEN /\ issued < MaxProbes
              /\ issued' = issued + 1
              /\ inflight' = inflight @@
                    (issued' :> [op |-> "probe", url |-> param[1]])
              /\ response' = NoResponse
              /\ clean' = IF \E r \in Suspended(param[1]) :
                                inflight[r].op = "add"
                          THEN clean
                          ELSE clean \cup {issued'}
              /\ UNCHANGED <<monitors, now, appended, epochLog, addWins,
                             stale, buried>>
         ELSE /\ response' = InvalidURL
              /\ UNCHANGED <<monitors, now, inflight, issued, ghosts>>
    ELSE /\ response' = Ok("list", 0,
                           [monitors |-> ListEntries(monitors),
                            total    |-> Len(ListEntries(monitors))])
         /\ UNCHANGED <<monitors, now, inflight, issued, ghosts>>

\* (variant: an exception of the probe escapes check_url_status)
get_monitors_resume_Raises(rid, outcome) ==
    /\ rid \in DOMAIN inflight
    /\ inflight[rid].op = "probe"
    /\ IF outcome.kind = "response"
       THEN LET url          == inflight[rid].url
                check_result == check_url_status(outcome, now')
            IN  /\ now' = now + 1
                /\ monitors' = StoreCheck(monitors, url, check_result, now')
                /\ response' =
                     Ok("probe", rid,
                        MonitorResponse(url, check_result,
                             calculate_uptime_percentage(
                                 GetItem(monitors', url))))
                /\ appended' = [appended EXCEPT
                                   ![url] = Append(@, check_result)]
                /\ epochLog' = IF rid \in clean
                               THEN [epochLog EXCEPT
                                        ![url] = Append(@, check_result)]
                               ELSE epochLog
       ELSE /\ response' = HTTPException(500, "Internal Server Error")
            /\ UNCHANGED <<monitors, now, appended, epochLog>>
    /\ inflight' = Resume(rid)
    /\ clean' = clean \ {rid}
    /\ stale' = stale \ {rid}
    /\ UNCHANGED <<issued, addWins, buried>>

\* get_monitors from the return of check_url_status to its response
get_monitors_resume(rid, outcome) ==
    /\ rid \in DOMAIN inflight
    /\ inflight[rid].op = "probe"
    /\ LET url          == inflight[rid].url
           check_result == check_url_status(outcome, now')
       IN  /\ now' = now + 1
           /\ monitors' = StoreCheck(monitors, url, check_result, now')
           /\ response' =
                Ok("probe", rid,
                   MonitorResponse(url, check_result,
                        calculate_uptime_percentage(GetItem(monitors', url))))
           /\ appended' = [appended EXCEPT ![url] = Append(@, check_result)]
           /\ epochLog' = IF rid \in clean
                          THEN [epochLog EXCEPT
                                   ![url] = Append(@, check_result)]
                          ELSE epochLog
    /\ inflight' = Resume(rid)
    /\ clean' = clean \ {rid}
    /\ stale' = stale \ {rid}
    /\ UNCHANGED <<issued, addWins, buried>>

\* ------------------------------------------------------------------------
\* GET and POST /api/uptime/monitors/add
\* ------------------------------------------------------------------------
\* The record add_monitor_logic stores (lines 191-199).
NewMonitor(url, check_result, created_at, monitor_id) ==
    [url        |-> url,
     created_at |-> created_at,
     checks     |-> <<check_result>>,
     id         |-> Some(monitor_id)]

AddResponse(url, check_result, monitor_id) ==
    [id              |-> monitor_id,
     url             |-> url,
     uptime          |-> 10000,
     totalChecks     |-> 1,
     avgResponseTime |-> check_result.response_time,
     lastCheck       |-> [timestamp    |-> check_result.last_checked,
                          status       |-> check_result.status,
                          responseTime |-> check_result.response_time],
     isActive        |-> TRUE]

\* (variant: the duplicate test is missing)
AlreadyMonitored_Never(dict, url) == FALSE

\* `if url in monitors` of add_monitor_logic
AlreadyMonitored(dict, url) == Contains(dict, url)

\* add_monitor_get / add_monitor_post with add_monitor_logic, up to
\* `await check_url_status(url)` or to the HTTPException
add_monitor_logic(url, apikey) ==
    IF ~verify_api_key(apikey)
    THEN /\ response' = Unauthorized
         /\ UNCHANGED <<monitors, now, inflight, issued, ghosts>>
    ELSE IF ~IsHttpUrl(url)
    THEN /\ response' = InvalidURL
         /\ UNCHANGED <<monitors, now, inflight, issued, ghosts>>
    ELSE IF AlreadyMonitored(monitors, url)
    THEN /\ response' = DuplicateURL
         /\ UNCHANGED <<monitors, now, inflight, issued, ghosts>>
    ELSE /\ issued < MaxProbes
         /\ issued' = issued + 1
         /\ inflight' = inflight @@
               (issued' :> [op |-> "add", url |-> url])
         /\ response' = NoResponse
         /\ Disturb(url, {})
         /\ UNCHANGED <<monitors, now, appended, addWins, stale, buried>>

\* add_monitor_logic from the return of check_url_status to its response
add_monitor_logic_resume(rid, outcome) ==
    /\ rid \in DOMAIN inflight
    /\ inflight[rid].op = "add"
    /\ LET url          == inflight[rid].url
           check_result == check_url_status(outcome, now')
           monitor_id   == ToString(now')
       IN  /\ now' = now + 1
           /\ monitors' = SetItem(monitors, url,
                             NewMonitor(url, check_result, now', monitor_id))
           /\ response' = Ok("add", rid,
                             AddResponse(url, check_result, monitor_id))
           /\ appended' = [appended EXCEPT ![url] = Append(@, check_result)]
           /\ addWins' = [addWins EXCEPT ![url] = @ + 1]
           /\ Disturb(url, {rid})
    /\ inflight' = Resume(rid)
    /\ stale' = stale \ {rid}
    /\ UNCHANGED <<issued, buried>>

\* ------------------------------------------------------------------------
\* DELETE and GET /api/uptime/monitors/remove
\* ------------------------------------------------------------------------
\* DELETE /api/uptime/monitors/remove
remove_monitor(url, apikey) ==
    IF ~verify_api_key(apikey)
    THEN /\ response' = Unauthorized
         /\ UNCHANGED <<monitors, now, inflight, issued, ghosts>>
    ELSE IF ~Contains(monitors, url)
    THEN /\ response' = NotFound
         /\ UNCHANGED <<monitors, now, inflight, issued, ghosts>>
    ELSE /\ monitors' = DelItem(monitors, url)
         /\ response' = Ok("remove", 0, [message |-> <<"Monitor removed for", url>>])
         /\ buried' = [buried EXCEPT
                          ![url] = @ \cup Range(GetItem(monitors, url).checks)]
         /\ appended' = [appended EXCEPT ![url] = << >>]
         /\ addWins' = [addWins EXCEPT ![url] = 0]
         /\ stale' = stale \cup Suspended(url)
         /\ Disturb(url, {})
         /\ UNCHANGED <<now, inflight, issued>>

\* (variant: `del monitors[url]` without the membership test)
remove_monitor_get_NoCheck(url, apikey) ==
    IF ~verify_api_key(apikey)
    THEN /\ response' = Unauthorized
         /\ UNCHANGED <<monitors, now, inflight, issued, ghosts>>
    ELSE IF ~Contains(monitors, url)
    THEN /\ response' = HTTPException(500, "Internal Server Error")
         /\ UNCHANGED <<monitors, now, inflight, issued, ghosts>>
    ELSE /\ monitors' = DelItem(monitors, url)
         /\ response' = Ok("remove", 0, [message |-> <<"Monitor removed for", url>>])
         /\ buried' = [buried EXCEPT
                          ![url] = @ \cup Range(GetItem(monitors, url).checks)]
         /\ appended' = [appended EXCEPT ![url] = << >>]
         /\ addWins' = [addWins EXCEPT ![url] = 0]
         /\ stale' = stale \cup Suspended(url)
         /\ Disturb(url, {})
         /\ UNCHANGED <<now, inflight, issued>>

\* GET /api/uptime/monitors/remove: the same statements, written again
remove_monitor_get(url, apikey) ==
    IF ~verify_api_key(apikey)
    THEN /\ response' = Unauthorized
         /\ UNCHANGED <<monitors, now, inflight, issued, ghosts>>
    ELSE IF ~Contains(monitors, url)
    THEN /\ response' = NotFound
         /\ UNCHANGED <<monitors, now, inflight, issued, ghosts>>
    ELSE /\ monitors' = DelItem(monitors, url)
         /\ response' = Ok("remove", 0, [message |-> <<"Monitor removed for", url>>])
         /\ buried' = [buried EXCEPT
                          ![url] = @ \cup Range(GetItem(monitors, url).checks)]
         /\ appended' = [appended EXCEPT ![url] = << >>]
         /\ addWins' = [addWins EXCEPT ![url] = 0]
         /\ stale' = stale \cup Suspended(url)
         /\ Disturb(url, {})
         /\ UNCHANGED <<now, inflight, issued>>

\* ------------------------------------------------------------------------
\* GET /api/uptime/monitors/history
\* ------------------------------------------------------------------------
\* (variant: the slice is stored back into the monitor)
get_monitor_history_InPlace(url, limit, apikey) ==
    IF ~verify_api_key(apikey)
    THEN /\ response' = Unauthorized
         /\ UNCHANGED <<monitors, now, inflight, issued, ghosts>>
    ELSE IF ~Contains(monitors, url)
    THEN /\ response' = NotFound
         /\ UNCHANGED <<monitors, now, inflight, issued, ghosts>>
    ELSE LET kept == SliceFrom(GetItem(monitors, url).checks, 0 - limit)
         IN  /\ monitors' = SetItem(monitors, url,
                    [GetItem(monitors, url) EXCEPT !.checks = kept])
             /\ response' = Ok("history", 0,
                    [url               |-> url,
                     checks            |-> kept,
                     total_checks      |-> Len(kept),
                     uptime_percentage |->
                         calculate_uptime_percentage(GetItem(monitors', url))])
             /\ UNCHANGED <<now, inflight, issued, ghosts>>

get_monitor_history(url, limit, apikey) ==
    /\ response' =
         IF ~verify_api_key(apikey) THEN Unauthorized
         ELSE IF ~Contains(monitors, url) THEN NotFound
         ELSE Ok("history", 0,
                 [url               |-> url,
                  checks            |-> SliceFrom(GetItem(monitors, url).checks,
                                                  0 - limit),
                  total_checks      |-> Len(GetItem(monitors, url).checks),
                  uptime_percentage |->
                      calculate_uptime_percentage(GetItem(monitors, url))])
    /\ UNCHANGED <<monitors, now, inflight, issued, ghosts>>

\* ------------------------------------------------------------------------
\* GET /api/uptime/stats
\* ------------------------------------------------------------------------
\* (variant: checks[0] instead of checks[-1])
LatestCheck_First(monitor_data) == monitor_data.checks[1]

\* monitor_data["checks"][-1]
LatestCheck(monitor_data) == monitor_data.checks[Len(monitor_data.checks)]

\* The monitors the loop of get_stats puts in up_urls / down_urls, in order.
UpMonitors(dict) ==
    SelectSeq(dict, LAMBDA m : m.checks # << >>
                               /\ LatestCheck(m).status = "up")

DownMonitors(dict) ==
    SelectSeq(dict, LAMBDA m : m.checks # << >>
                               /\ LatestCheck(m).status # "up")

StatsBody(dict) ==
    LET up   == UpMonitors(dict)
        down == DownMonitors(dict)
    IN  [total_monitors |-> Len(dict),
         up_monitors    |-> Len(up),
         down_monitors  |-> Len(down),
         overall_uptime |-> IF Len(dict) > 0
                            THEN RoundPercent(Len(up), Len(dict))
                            ELSE 0,
         up_urls        |-> [i \in DOMAIN up |->
                               [url           |-> up[i].url,
                                status        |-> LatestCheck(up[i]).status,
                                response_time |->
                                    LatestCheck(up[i]).response_time,
                                last_checked  |->
                                    LatestCheck(up[i]).last_checked]],
         down_urls      |-> [i \in DOMAIN down |->
                               [url           |-> down[i].url,
                                status        |-> LatestCheck(down[i]).status,
                                response_time |->
                                    LatestCheck(down[i]).response_time,
                                last_checked  |->
                                    LatestCheck(down[i]).last_checked,
                                error         |-> LatestCheck(down[i]).error]]]

get_stats ==
    /\ response' = Ok("stats", 0, StatsBody(monitors))
    /\ UNCHANGED <<monitors, now, inflight, issued, ghosts>>

\* ------------------------------------------------------------------------
\* Specification
\* ------------------------------------------------------------------------
\* The requests callers send.  A request with a wrong key is answered
\* before its other parameters are read, so one url stands for all of them.
WrongKeys == ApiKeys \ {VALID_API_KEY}

GetMonitorsRequests ==
    (UrlParams \X {VALID_API_KEY}) \cup ({Some(UrlA)} \X WrongKeys)

UrlRequests == (UrlInputs \X {VALID_API_KEY}) \cup ({UrlA} \X WrongKeys)

HistoryRequests ==
    (UrlInputs \X Limits \X {VALID_API_KEY})
        \cup ({UrlA} \X {DefaultLimit} \X WrongKeys)

Next ==
    \/ \E req \in GetMonitorsRequests : get_monitors(req[1], req[2])
    \/ \E rid \in 1..MaxProbes, outcome \in Outcomes :
          get_monitors_resume(rid, outcome)
    \/ \E req \in UrlRequests : add_monitor_logic(req[1], req[2])
    \/ \E rid \in 1..MaxProbes, outcome \in Outcomes :
          add_monitor_logic_resume(rid, outcome)
    \/ \E req \in UrlRequests : remove_monitor(req[1], req[2])
    \/ \E req \in UrlRequests : remove_monitor_get(req[1], req[2])
    \/ \E req \in HistoryRequests :
          get_monitor_history(req[1], req[2], req[3])
    \/ get_stats

Spec == Init /\ [][Next]_vars

\* check_url_status gives its request 10 seconds (httpx.AsyncClient(timeout=
\* 10.0)) and catches every exception, so each await returns; the event loop
\* then runs the suspended handler to its response.
ProbeReturns(rid) ==
    \E outcome \in Outcomes :
        \/ get_monitors_resume(rid, outcome)
        \/ add_monitor_logic_resume(rid, outcome)

Fairness == \A rid \in 1..MaxProbes : WF_vars(ProbeReturns(rid))

\* The callers of this specification hold the key and ask for histories
\* with the default limit.
NextKeyed ==
    \/ \E param \in UrlParams : get_monitors(param, VALID_API_KEY)
    \/ \E rid \in 1..MaxProbes, outcome \in Outcomes :
          get_monitors_resume(rid, outcome)
    \/ \E url \in UrlInputs : add_monitor_logic(url, VALID_API_KEY)
    \/ \E rid \in 1..MaxProbes, outcome \in Outcomes :
          add_monitor_logic_resume(rid, outcome)
    \/ \E url \in UrlInputs : remove_monitor(url, VALID_API_KEY)
    \/ \E url \in UrlInputs : remove_monitor_get(url, VALID_API_KEY)
    \/ \E url \in UrlInputs :
          get_monitor_history(url, DefaultLimit, VALID_API_KEY)
    \/ get_stats

SpecKeyed == Init /\ [][NextKeyed]_vars

\* ------------------------------------------------------------------------
\* A store whose history is about to reach the cap
\* ------------------------------------------------------------------------
\* The state after HistoryLimit - 1 ad-hoc probes of UrlA, one after the
\* other, every third of them answered 400: UrlA is one probe short of a
\* full history.
PreLen == HistoryLimit - 1

PreOutcome(i) ==
    [kind        |-> "response",
     status_code |-> IF i % 3 = 0 THEN 400 ELSE 399,
     elapsed     |-> 1234]

PreChecks == [i \in 1..PreLen |-> check_url_status(PreOutcome(i), i)]

InitLong ==
    /\ monitors = <<[url |-> UrlA, created_at |-> 1,
                     checks |-> PreChecks, id |-> None]>>
    /\ now = PreLen
    /\ inflight = << >>
    /\ issued = 0
    /\ response = NoResponse
    /\ appended = [u \in HttpUrls |-> IF u = UrlA THEN PreChecks ELSE << >>]
    /\ epochLog = [u \in HttpUrls |-> IF u = UrlA THEN PreChecks ELSE << >>]
    /\ clean = {}
    /\ addWins = [u \in HttpUrls |-> 0]
    /\ stale = {}
    /\ buried = [u \in HttpUrls |-> {}]

\* The callers of this specification name UrlA only and hold the key.
NextLong ==
    \/ \E param \in {None, Some(UrlA)} : get_monitors(param, VALID_API_KEY)
    \/ \E rid \in 1..MaxProbes, outcome \in Outcomes :
          get_monitors_resume(rid, outcome)
    \/ add_monitor_logic(UrlA, VALID_API_KEY)
    \/ \E rid \in 1..MaxProbes, outcome \in Outcomes :
          add_monitor_logic_resume(rid, outcome)
    \/ remove_monitor(UrlA, VALID_API_KEY)
    \/ remove_monitor_get(UrlA, VALID_API_KEY)
    \/ \E limit \in Limits : get_monitor_history(UrlA, limit, VALID_API_KEY)
    \/ get_stats

SpecLong == InitLong /\ [][NextLong]_vars

SpecLongFair == SpecLong /\ Fairness

TypeOK ==
    /\ issued \in 0..MaxProbes
    /\ DOMAIN inflight \subseteq 1..issued
    /\ Keys(monitors) \subseteq HttpUrls
    /\ \A i, j \in DOMAIN monitors :
          monitors[i].url = monitors[j].url => i = j

\* ------------------------------------------------------------------------
\* Vocabulary of the properties
\* ------------------------------------------------------------------------
Abs(x) == IF x < 0 THEN 0 - x ELSE x

\* The last n elements of seq, in order.
LastN(seq, n) ==
    IF Len(seq) <= n
    THEN seq
    ELSE [i \in 1..n |-> seq[Len(seq) - n + i]]

Occurrences(seq, x) == Cardinality({i \in DOMAIN seq : seq[i] = x})

\* h is num/den as a percentage rounded to 2 decimals (in hundredths).
IsRoundedPercent(h, num, den) ==
    \/ 2 * Abs(h * den - 10000 * num) < den
    \/ 2 * Abs(h * den - 10000 * num) = den /\ h % 2 = 0

\* h is the uptime percentage of a history, from its up and down counts.
IsUptimeOf(h, checks) ==
    LET U == Cardinality({i \in DOMAIN checks : checks[i].status = "up"})
        D == Cardinality({i \in DOMAIN checks : checks[i].status = "down"})
    IN  IF U + D = 0 THEN h = 0 ELSE IsRoundedPercent(h, U, U + D)

Checks(url) == GetItem(monitors, url).checks

Returned(op) == response.status_code = 200 /\ response.op = op

\* ------------------------------------------------------------------------
\* C1: every stored monitor has at most 100 checks, in every reachable
\* state.
\* ------------------------------------------------------------------------
C1_HistoryBounded ==
    \A i \in DOMAIN monitors : Len(monitors[i].checks) <= HistoryLimit

\* A full history from which the oldest result has been evicted.
C1_Witness ==
    /\ Contains(monitors, UrlA)
    /\ Len(Checks(UrlA)) = HistoryLimit
    /\ Len(appended[UrlA]) > HistoryLimit

\* ------------------------------------------------------------------------
\* C2: a monitor that was not removed or added again holds exactly the last
\* min(N, 100) of the N results its probes have completed with, oldest
\* first.
\* ------------------------------------------------------------------------
C2_HistoryIsLastProbes ==
    \A u \in HttpUrls :
        (Contains(monitors, u) /\ addWins[u] <= 1)
            => Checks(u) = LastN(appended[u], HistoryLimit)

\* ------------------------------------------------------------------------
\* C3: the results of ad-hoc probes of one url that ran with no AddMonitor
\* or RemoveMonitor of that url in between are all in its history, each
\* once, as long as there are at most 100 of them.
\* ------------------------------------------------------------------------
C3_NoLostAppend ==
    \A u \in HttpUrls :
        (epochLog[u] # << >> /\ Len(epochLog[u]) <= HistoryLimit)
            => /\ Contains(monitors, u)
               /\ \A k \in DOMAIN epochLog[u] :
                     Occurrences(Checks(u), epochLog[u][k]) = 1

\* Two probes of an unseen url overlapped (the one started second returned
\* first) and both have responded.
C3_Witness ==
    /\ Returned("probe")
    /\ response.rid = 1
    /\ Len(epochLog[UrlA]) = 2
    /\ epochLog[UrlA][1].last_checked = 1
    /\ buried[UrlA] = {}
    /\ Len(Checks(UrlA)) = 2

\* ------------------------------------------------------------------------
\* C4: AddMonitor of a url that is a key of the store answers DuplicateURL
\* (400), starts no probe and leaves the store as it was.
\* ------------------------------------------------------------------------
C4_DuplicateRejected ==
    [][\A url \in UrlInputs :
          (Contains(monitors, url) /\ add_monitor_logic(url, VALID_API_KEY))
              => /\ response' = DuplicateURL
                 /\ monitors' = monitors
                 /\ inflight' = inflight
                 /\ issued' = issued
                 /\ now' = now]_vars

C4_Witness ==
    /\ response = DuplicateURL
    /\ Contains(monitors, UrlA)

\* ------------------------------------------------------------------------
\* C5: of the AddMonitor requests for one url with no removal of it in
\* between, at most one succeeds.
\* ------------------------------------------------------------------------
C5_AtMostOneAddSucceeds == \A u \in HttpUrls : addWins[u] <= 1

\* ------------------------------------------------------------------------
\* C6: while a url stays in the store its record changes only by the append
\* of one check result (the oldest evicted beyond 100): createdAt is kept
\* and no stored check is dropped or replaced otherwise.
\* ------------------------------------------------------------------------
C6_OnlyAppended ==
    [][\A u \in HttpUrls :
          (Contains(monitors, u) /\ Contains(monitors', u))
              => LET old == GetItem(monitors, u)
                     new == GetItem(monitors', u)
                 IN  /\ new.created_at = old.created_at
                     /\ \/ new.checks = old.checks
                        \/ \E c \in Range(new.checks) :
                              new.checks =
                                  LastN(Append(old.checks, c), HistoryLimit)
      ]_vars

\* ------------------------------------------------------------------------
\* C7 (as stated): a removed url comes back only through a request that was
\* issued after the removal.
\* ------------------------------------------------------------------------
C7_OnlyLaterRequestsRecreate ==
    [][\A u \in HttpUrls :
          (~Contains(monitors, u) /\ Contains(monitors', u))
              => /\ response'.status_code = 200
                 /\ response'.rid \notin stale]_vars

\* ------------------------------------------------------------------------
\* C7 (amended): a successful RemoveMonitor(url) leaves url absent, GetHistory
\* of an absent url answers NotFound, and an absent url becomes a key again
\* only when an AddMonitor or ad-hoc probe request for it completes, whether
\* that request was issued before or after the removal.
\* ------------------------------------------------------------------------
C7_AbsentUntilProbeCompletes ==
    [][\A u \in HttpUrls :
          /\ (/\ Contains(monitors, u)
              /\ \/ remove_monitor(u, VALID_API_KEY)
                 \/ remove_monitor_get(u, VALID_API_KEY))
                => (~Contains(monitors', u) /\ response'.status_code = 200)
          /\ \A limit \in Limits :
                (/\ ~Contains(monitors, u)
                 /\ get_monitor_history(u, limit, VALID_API_KEY))
                    => response' = NotFound
          /\ (~Contains(monitors, u) /\ Contains(monitors', u))
                => \E rid \in DOMAIN inflight \ DOMAIN inflight' :
                      /\ inflight[rid].url = u
                      /\ inflight[rid].op \in {"add", "probe"}
                      /\ response'.status_code = 200
                      /\ response'.rid = rid]_vars

\* The url was removed while a request for it was suspended, and a lookup
\* of it has just answered NotFound.
C7_Witness ==
    /\ response = NotFound
    /\ ~Contains(monitors, UrlA)
    /\ buried[UrlA] # {}
    /\ \E rid \in stale : inflight[rid].url = UrlA

\* ------------------------------------------------------------------------
\* C8: a check result that was in the history of a url when it was removed
\* is in no later history of that url.
\* ------------------------------------------------------------------------
C8_NoResurrection ==
    \A u \in HttpUrls :
        Contains(monitors, u) => Range(Checks(u)) \cap buried[u] = {}

\* The url is tracked again after a removal that deleted check results.
C8_Witness ==
    /\ Contains(monitors, UrlA)
    /\ buried[UrlA] # {}

\* ------------------------------------------------------------------------
\* C9: the uptime percentage in the ad-hoc probe response, in ListMonitors
\* and in GetHistory is 100*U/(U+D) rounded to 2 decimals over the checks
\* the store holds at that moment, and 0.0 for an empty history.
\* ------------------------------------------------------------------------
C9_UptimeFromChecks ==
    /\ Returned("probe")
          => IsUptimeOf(response.body.uptime_percentage,
                        Checks(response.body.url))
    /\ Returned("list")
          => \A i \in DOMAIN response.body.monitors :
                IsUptimeOf(response.body.monitors[i].uptime_percentage,
                           Checks(response.body.monitors[i].url))
    /\ Returned("history")
          => IsUptimeOf(response.body.uptime_percentage,
                        Checks(response.body.url))
    /\ calculate_uptime_percentage([checks |-> << >>]) = 0

\* A probe response whose percentage had to be rounded.
C9_Witness ==
    /\ Returned("probe")
    /\ response.body.uptime_percentage \notin {0, 5000, 10000}
    /\ Len(Checks(response.body.url)) = HistoryLimit

\* ------------------------------------------------------------------------
\* C10: GetFleetStats counts the monitors, those whose latest check is up
\* and those whose latest check is down, lists each of them once in upUrls
\* or downUrls, leaves a monitor with no check out of both, and reports
\* 100*up/total rounded to 2 decimals (0 with no monitor).
\* ------------------------------------------------------------------------
UrlC == HTTP \o <<"c">>

\* The store of the fleet scenario: A up, B down, C without a check.
ScenarioStore ==
    <<[url |-> UrlA, created_at |-> 1, id |-> None, checks |->
          <<check_url_status([kind |-> "response", status_code |-> 399,
                              elapsed |-> 1234], 1)>>],
      [url |-> UrlB, created_at |-> 2, id |-> None, checks |->
          <<check_url_status([kind |-> "exception",
                              message |-> "ConnectTimeout",
                              elapsed |-> 1234], 2)>>],
      [url |-> UrlC, created_at |-> 3, id |-> None, checks |-> << >>]>>

LatestIs(dict, status) ==
    {u \in Keys(dict) : /\ GetItem(dict, u).checks # << >>
                        /\ LET cs == GetItem(dict, u).checks
                           IN  cs[Len(cs)].status = status}

ListsOnce(entries, urls) ==
    /\ {entries[i].url : i \in DOMAIN entries} = urls
    /\ Len(entries) = Cardinality(urls)

IsFleetStats(body, dict) ==
    /\ body.total_monitors = Cardinality(Keys(dict))
    /\ body.up_monitors = Cardinality(LatestIs(dict, "up"))
    /\ body.down_monitors = Cardinality(LatestIs(dict, "down"))
    /\ ListsOnce(body.up_urls, LatestIs(dict, "up"))
    /\ ListsOnce(body.down_urls, LatestIs(dict, "down"))
    /\ IF Keys(dict) = {}
       THEN body.overall_uptime = 0
       ELSE IsRoundedPercent(body.overall_uptime,
                             body.up_monitors, body.total_monitors)

C10_FleetStats ==
    /\ Returned("stats") => IsFleetStats(response.body, monitors)
    /\ IsFleetStats(StatsBody(ScenarioStore), ScenarioStore)
    /\ StatsBody(ScenarioStore).overall_uptime = 3333

\* Stats over one monitor that is up and one that is down.
C10_Witness ==
    /\ Returned("stats")
    /\ response.body.up_monitors = 1
    /\ response.body.down_monitors = 1
    /\ response.body.total_monitors = 2

\* ------------------------------------------------------------------------
\* C11: GetHistory(url, limit) on a tracked url returns the most recent
\* min(max(limit, 0), len(checks)) entries, oldest first, with
\* total_checks = len(checks), for every integer limit (0 and negative
\* values included).
\* ------------------------------------------------------------------------
Min(a, b) == IF a < b THEN a ELSE b

Max(a, b) == IF a > b THEN a ELSE b

C11_HistoryLimit ==
    [][\A u \in HttpUrls, limit \in Limits :
          (Contains(monitors, u)
           /\ get_monitor_history(u, limit, VALID_API_KEY))
              => /\ response'.status_code = 200
                 /\ response'.body.total_checks = Len(Checks(u))
                 /\ response'.body.checks =
                       LastN(Checks(u), Min(Max(limit, 0), Len(Checks(u))))
      ]_vars

\* ------------------------------------------------------------------------
\* C12: ListMonitors without a url, GetHistory and GetFleetStats leave the
\* store (keys, createdAt, id and checks of every record) as it was, whether
\* they succeed or answer NotFound.
\* ------------------------------------------------------------------------
\* The step is one of the three read operations, called with the key.
ReadStep ==
    \/ /\ response'.status_code = 200
       /\ \/ /\ response'.op = "list"
             /\ \E param \in {None, Some(EmptyUrl)} :
                   get_monitors(param, VALID_API_KEY)
          \/ /\ response'.op = "history"
             /\ \E limit \in Limits :
                   get_monitor_history(response'.body.url, limit,
                                       VALID_API_KEY)
          \/ /\ response'.op = "stats"
             /\ get_stats
    \/ /\ response'.status_code = 404
       /\ \E u \in UrlInputs, limit \in Limits :
             get_monitor_history(u, limit, VALID_API_KEY)

C12_ReadsDoNotMutate == [][ReadStep => monitors' = monitors]_vars

\* GetHistory has just returned fewer entries than the monitor holds.
C12_Witness ==
    /\ Returned("history")
    /\ Len(response.body.checks) < response.body.total_checks
    /\ Len(Checks(response.body.url)) = response.body.total_checks

\* ------------------------------------------------------------------------
\* C13: a request with a key other than the configured one is answered 401
\* before the handler runs: no probe starts and the store is unchanged, for
\* ListMonitors / ad-hoc probe, AddMonitor, RemoveMonitor (both routes) and
\* GetHistory.  GetFleetStats takes no key and is never answered 401.
\* ------------------------------------------------------------------------
\* The step is a keyed handler called with the wrong key k.
WrongKeyStep(k) ==
    \/ \E param \in UrlParams : get_monitors(param, k)
    \/ \E u \in {UrlA, UrlFtp} :
          \/ add_monitor_logic(u, k)
          \/ remove_monitor(u, k)
          \/ remove_monitor_get(u, k)
          \/ get_monitor_history(u, DefaultLimit, k)

C13_WrongKeyRejected ==
    [][/\ \A k \in WrongKeys :
             WrongKeyStep(k)
                => /\ response' = Unauthorized
                   /\ UNCHANGED <<monitors, inflight, issued, now>>
       /\ response'.status_code = 401 => ~get_stats]_vars

\* A wrong key was refused while a monitor is stored and a probe is out.
C13_Witness ==
    /\ response = Unauthorized
    /\ Contains(monitors, UrlA)
    /\ inflight # << >>

\* ------------------------------------------------------------------------
\* C14: every stored check result is well formed: it is up exactly when it
\* carries a status code below 400 (399 up, 400 down); it carries no status
\* code exactly when it carries an error, and then it is down.
\* ------------------------------------------------------------------------
WellFormed(c) ==
    /\ c.status \in {"up", "down"}
    /\ c.status = "up" <=> (c.status_code # None /\ c.status_code[1] < 400)
    /\ c.status_code = None <=> c.error # None
    /\ c.status_code = None => c.status = "down"

StoredChecks == UNION {Range(monitors[i].checks) : i \in DOMAIN monitors}

C14_ChecksWellFormed == \A c \in StoredChecks : WellFormed(c)

\* The store holds a 399 that is up, a 400 that is down and a probe that got
\* no response.
C14_Witness ==
    /\ \E c \in StoredChecks : c.status_code = <<399>> /\ c.status = "up"
    /\ \E c \in StoredChecks : c.status_code = <<400>> /\ c.status = "down"
    /\ \E c \in StoredChecks :
          c.status_code = None /\ c.error # None /\ c.status = "down"

\* ------------------------------------------------------------------------
\* C15: every ad-hoc probe and every AddMonitor that started its probe
\* eventually answers 200, and the step that answers it records exactly one
\* new check result in the store, once, without starting another probe; a
\* probe that got no response is recorded as down.
\* ------------------------------------------------------------------------
Completes(rid) == rid \in DOMAIN inflight /\ rid \notin DOMAIN inflight'

Answered(rid) ==
    /\ response.status_code = 200
    /\ response.op \in {"probe", "add"}
    /\ response.rid = rid

RecordsOneCheck(rid) ==
    LET u      == inflight[rid].url
        old    == IF Contains(monitors, u) THEN Range(Checks(u)) ELSE {}
        stored == IF Contains(monitors', u)
                  THEN GetItem(monitors', u).checks ELSE << >>
        new    == Range(stored) \ old
    IN  /\ response'.status_code = 200
        /\ response'.rid = rid
        /\ response'.op = inflight[rid].op
        /\ issued' = issued
        /\ DOMAIN inflight' = DOMAIN inflight \ {rid}
        /\ Cardinality(new) = 1
        /\ \A c \in new :
              /\ Occurrences(stored, c) = 1
              /\ stored[Len(stored)] = c
              /\ c.status_code = None => c.status = "down"
              /\ IF response'.op = "probe"
                 THEN /\ response'.body.status = c.status
                      /\ response'.body.status_code = c.status_code
                 ELSE response'.body.lastCheck.status = c.status

C15_ProbeFailuresAreData ==
    /\ \A rid \in 1..MaxProbes : (rid \in DOMAIN inflight) ~> Answered(rid)
    /\ [][\A rid \in 1..MaxProbes : Completes(rid) => RecordsOneCheck(rid)]_vars

\* An ad-hoc probe that got no response answered 200 with a down result, and
\* that result is the one its monitor holds.
C15_Witness ==
    /\ Returned("probe")
    /\ response.body.status_code = None
    /\ response.body.status = "down"
    /\ Contains(monitors, response.body.url)
    /\ LatestCheck(GetItem(monitors, response.body.url)).error # None

\* ------------------------------------------------------------------------
\* C16: every monitor of the store is kept under a url that starts with
\* http:// or https://, one monitor per url; AddMonitor and the ad-hoc probe
\* of any other non-empty url answer InvalidURL (400), start no probe and
\* leave the store unchanged, whether or not anything is stored.
\* ------------------------------------------------------------------------
HasScheme(url) == StartsWith(url, HTTP) \/ StartsWith(url, HTTPS)

OtherUrls == {u \in UrlInputs : u # EmptyUrl /\ ~HasScheme(u)}

KeysAreHttpUrls ==
    /\ \A i \in DOMAIN monitors : HasScheme(monitors[i].url)
    /\ \A i, j \in DOMAIN monitors :
          monitors[i].url = monitors[j].url => i = j
    /\ \A r \in DOMAIN inflight : HasScheme(inflight[r].url)

RejectsOtherUrls ==
    \A u \in OtherUrls :
        (add_monitor_logic(u, VALID_API_KEY)
            \/ get_monitors(Some(u), VALID_API_KEY))
          => /\ response' = InvalidURL
             /\ response' # DuplicateURL
             /\ UNCHANGED <<monitors, inflight, issued, now>>

C16_OnlyHttpUrls == []KeysAreHttpUrls /\ [][RejectsOtherUrls]_vars

\* An invalid url was just rejected while the store holds a monitor.
C16_Witness ==
    /\ response = InvalidURL
    /\ monitors # << >>
    /\ OtherUrls # {}

\* ------------------------------------------------------------------------
\* C17: RemoveMonitor of an untracked url answers NotFound (404) and leaves
\* the store as it is; of a tracked url it removes that monitor, history
\* included, and leaves every other monitor as it is; the DELETE and the
\* GET route take the same steps.
\* ------------------------------------------------------------------------
RemovesExactly(u) ==
    IF Contains(monitors, u)
    THEN /\ response'.status_code = 200
         /\ response'.op = "remove"
         /\ Keys(monitors') = Keys(monitors) \ {u}
         /\ Len(monitors') = Len(monitors) - 1
         /\ \A v \in Keys(monitors') :
               GetItem(monitors', v) = GetItem(monitors, v)
    ELSE /\ response' = NotFound
         /\ monitors' = monitors

C17_RemoveMonitor ==
    [][\A u \in UrlInputs :
          /\ remove_monitor(u, VALID_API_KEY)
                => (remove_monitor_get(u, VALID_API_KEY) /\ RemovesExactly(u))
          /\ remove_monitor_get(u, VALID_API_KEY)
                => remove_monitor(u, VALID_API_KEY)
      ]_vars

\* A monitor was just removed with its history and another is left.
C17_Witness ==
    /\ Returned("remove")
    /\ Len(monitors) = 1
    /\ monitors[1].checks # << >>
    /\ \E u \in HttpUrls : ~Contains(monitors, u) /\ buried[u] # {}

\* ------------------------------------------------------------------------
\* C18: every monitor of the store has an id.
\* ------------------------------------------------------------------------
C18_EveryMonitorHasId == \A i \in DOMAIN monitors : monitors[i].id # None

\* ------------------------------------------------------------------------
\* C19: what a successful AddMonitor answers agrees with the monitor it
\* stored: one check in the history, which is the lastCheck of the answer,
\* totalChecks 1, and the uptime of the answer is the uptime percentage of
\* that history.
\* ------------------------------------------------------------------------
C19_AddResponseAgrees ==
    Returned("add") =>
        LET u == response.body.url
        IN  /\ Contains(monitors, u)
            /\ Len(Checks(u)) = 1
            /\ response.body.totalChecks = Len(Checks(u))
            /\ response.body.lastCheck.timestamp = Checks(u)[1].last_checked
            /\ response.body.lastCheck.status = Checks(u)[1].status
            /\ response.body.uptime =
                  calculate_uptime_percentage(GetItem(monitors, u))
            /\ IsUptimeOf(response.body.uptime, Checks(u))

\* ------------------------------------------------------------------------
\* C20: every monitor of the store has at least one check in its history;
\* so the fleet statistics count every monitor as up or as down, and the
\* list without a url has one entry per monitor, in the order of the store.
\* ------------------------------------------------------------------------
C20_NoEmptyHistory ==
    /\ \A i \in DOMAIN monitors : monitors[i].checks # << >>
    /\ Returned("stats") =>
          /\ response.body.total_monitors = Len(monitors)
          /\ response.body.up_monitors + response.body.down_monitors
                = response.body.total_monitors
    /\ Returned("list") =>
          /\ response.body.total = Len(monitors)
          /\ Len(response.body.monitors) = Len(monitors)
          /\ \A i \in DOMAIN monitors :
                response.body.monitors[i].url = monitors[i].url

\* The list was just returned for a store of two monitors.
C20_Witness ==
    /\ Returned("list")
    /\ response.body.total = 2
    /\ Len(monitors) = 2

====
